---- MODULE Spec2Model ----
(***************************************************************************)
(* State-machine model of MqttClient (rehau_mqtt_client/MqttClient.py):    *)
(* the session orchestrator of the Rehau NEA Smart 2 integration.          *)
(*                                                                         *)
(* Every coroutine of the client reads its inputs before its single await  *)
(* on the identity service and applies its effects after it without        *)
(* another suspension, so a handler is one atomic action whose service     *)
(* outcome is chosen nondeterministically.                                 *)
(*                                                                         *)
(* Python None is the empty sequence for optional records (token_data,     *)
(* user, installations) and the string "None" for optional strings.        *)
(***************************************************************************)
EXTENDS Integers, Sequences, FiniteSets, TLC

\* ------------------------------------------------------------------ bounds
MaxConns == 2        \* broker connections created over one behaviour
MaxRetries == 6      \* cap of number_of_retries (the ceiling is 5)
MaxFailures == 6     \* cap of number_of_message_failures
MaxTemplateLen == 2  \* tokens of a topic template handed to the resolver

\* --------------------------------------------------------- program constants
MAX_CONNECT_RETRIES == 5

NONE == <<>>
Some(x) == <<x>>
IsNone(o) == o = <<>>
Val(o) == o[1]
NoneStr == "None"

auth_username == "user@mail"

\* ------------------------------------------------------------ topic resolver
\* A topic template is a sequence of tokens; the tokens "{id}" and "{email}"
\* (in any letter case) are the placeholders the regular expression matches.
LISTEN == <<"client/", "{email}">>
LISTEN_TO_CONTROLLER == <<"client/", "{id}", "/realtime">>
INSTALLATION == <<"client/", "{id}">>
USER_READ == <<"server/", "{email}", "/v1/install/user/read">>
USER_REFERENTIAL == <<"server/", "{email}", "/v1/install/user/referential">>

subscribe_topics == <<LISTEN, LISTEN_TO_CONTROLLER>>

IdForms == {"{id}", "{ID}", "{Id}", "{iD}"}
EmailForms == {"{email}", "{EMAIL}", "{Email}"}

\* replacements[match.group(0)]: only the lower-case spellings are keys of the
\* dictionary; a None replacement is substituted as the empty string by re.sub.
replace(tok, unique) ==
    IF tok = "{id}" THEN (IF unique = NoneStr THEN "" ELSE unique)
    ELSE IF tok = "{email}" THEN auth_username
    ELSE IF tok \in IdForms \cup EmailForms THEN "KeyError"
    ELSE tok

replace_wildcards(topic, unique) ==
    [i \in 1..Len(topic) |-> replace(topic[i], unique)]

\* the dictionary lookup of replace fails for some match of the template
RaisesKeyError(topic, unique) ==
    \E i \in 1..Len(topic) :
        topic[i] \in IdForms \cup EmailForms /\ replace(topic[i], unique) = "KeyError"

\* the templates a caller may hand to replace_wildcards
TemplateTokens == {"client/", "/realtime"} \cup IdForms \cup EmailForms

Templates ==
    UNION {[1..n -> TemplateTokens] : n \in 1..MaxTemplateLen}

\* ------------------------------------------------------------------ payloads
\* the token data the identity service hands out
TokenDatas ==
    {[access_token |-> "at1", refresh_token |-> "rt1"],
     [access_token |-> "at2", refresh_token |-> "rt2"]}

RawChannel(id) == [id |-> id, energy_level |-> 0, target_temperature |-> 0]

InstallA ==
    [_id |-> "ia", unique |-> "a", hash |-> "ha",
     user |-> [heatcool_auto_01 |-> 1],
     groups |-> << [zones |-> << [channels |-> << RawChannel("c1") >>] >>],
                   [zones |-> << [channels |-> << RawChannel("c2") >>] >>] >>]

InstallB ==
    [_id |-> "ib", unique |-> "b",
     groups |-> << [zones |-> << [channels |-> << RawChannel("c3") >>] >>] >>]

InstallANoGroups == [_id |-> "ia", unique |-> "a"]
InstallAEmptyGroups == [_id |-> "ia", unique |-> "a", groups |-> << >>]

UserOne == [defaultInstall |-> "a", installs |-> << InstallA >>]
UserTwo == [defaultInstall |-> "b", installs |-> << InstallA, InstallB >>]
UserNoGroups == [defaultInstall |-> "a", installs |-> << InstallANoGroups >>]
UserEmptyGroups == [defaultInstall |-> "a", installs |-> << InstallAEmptyGroups >>]
UserNoInstalls == [defaultInstall |-> "a"]
UserEmptyInstalls == [defaultInstall |-> "a", installs |-> << >>]
UserOtherDefault == [defaultInstall |-> "z", installs |-> << InstallA >>]
UserOneGroup == [defaultInstall |-> "b", installs |-> << InstallB >>]

Users ==
    {UserOne, UserTwo, UserNoGroups, UserEmptyGroups, UserNoInstalls,
     UserEmptyInstalls, UserOtherDefault}

\* the users the identity service returns in the session specification
SessionUsers == {UserOne, UserNoGroups}

Observers == {"o1", "o2"}

VARIABLES
    token_data, user, installations, authenticated,
    last_operating_mode, last_pumpOn, last_mc1_setpoint, last_mc1_supply,
    last_mc1_return, last_mc1_opening,
    current_installation,
    client,               \* index into conns of self.client, 0 for None
    conns,                \* every mqtt.Client object created so far
    stop_scheduler_loop,
    scheduler_task,       \* "none", "pending", "running" or "done"
    crons,                \* job sets registered with aiocron and never stopped
    number_of_retries, number_of_message_failures,
    callbacks,
    pc,                   \* where the session context is inside init_mqtt_client
    last,                 \* the handler that ran last
    raised,               \* the exception that left it, "none" if it returned
    oplog,                \* the broker and scheduler calls it made, in order
    notified              \* how often it invoked each observer

store_vars ==
    <<user, installations, last_operating_mode, last_pumpOn, last_mc1_setpoint,
      last_mc1_supply, last_mc1_return, last_mc1_opening, current_installation,
      callbacks, notified>>

session_vars ==
    <<token_data, authenticated, client, conns, stop_scheduler_loop,
      scheduler_task, crons, number_of_retries, number_of_message_failures, pc>>

vars == <<store_vars, session_vars, last, raised, oplog>>

NoCalls == <<>>
NotNotified == [o \in Observers |-> 0]

Init ==
    /\ token_data = NONE
    /\ user = NONE
    /\ installations = NONE
    /\ authenticated = FALSE
    /\ last_operating_mode = 0
    /\ last_pumpOn = 0
    /\ last_mc1_setpoint = 0
    /\ last_mc1_supply = 0
    /\ last_mc1_return = 0
    /\ last_mc1_opening = 0
    /\ current_installation = [id |-> NoneStr, unique |-> NoneStr, hash |-> NoneStr]
    /\ client = 0
    /\ conns = <<>>
    /\ stop_scheduler_loop = FALSE
    /\ scheduler_task = "none"
    /\ crons = 0
    /\ number_of_retries = 0
    /\ number_of_message_failures = 0
    /\ callbacks = {}
    /\ pc = "idle"
    /\ last = "init"
    /\ raised = "none"
    /\ oplog = NoCalls
    /\ notified = NotNotified

\* ------------------------------------------------------- transport (paho)
Call(c, t, tok) == [call |-> c, arg |-> t, token |-> tok]

\* a call of the identity service and what it returned or raised
Svc(name, outcome) == [service |-> name, outcome |-> outcome]

\* what a call returned to the handler
Returned(v) == [returned |-> v]
IsReturned(e) == "returned" \in DOMAIN e

IsCall(e, name) == "call" \in DOMAIN e /\ e.call = name
IsSvc(e, name) == "service" \in DOMAIN e /\ e.service = name

\* mqtt.Client(...): an unconnected client object
NewConn(tok) ==
    [password |-> tok, open |-> FALSE, link |-> FALSE, loop |-> FALSE, subs |-> {}]

\* client.unsubscribe / client.subscribe act on a connected client only and
\* return an error code otherwise
Unsubscribe(cn, t) == IF cn.link THEN [cn EXCEPT !.subs = @ \ {t}] ELSE cn
Subscribe(cn, t) == IF cn.link THEN [cn EXCEPT !.subs = @ \cup {t}] ELSE cn

\* client.disconnect(): the session is clean, the broker drops its subscriptions
Close(cn) == [cn EXCEPT !.open = FALSE, !.link = FALSE, !.subs = {}]
LoopStop(cn) == [cn EXCEPT !.loop = FALSE]

Topics(unique) ==
    [i \in 1..Len(subscribe_topics) |-> replace_wildcards(subscribe_topics[i], unique)]

\* a send_topics that subscribes first and unsubscribes afterwards
RECURSIVE SendTopicsConn_subscribe_first(_, _, _)
SendTopicsConn_subscribe_first(cn, ts, i) ==
    IF i > Len(ts) THEN cn
    ELSE SendTopicsConn_subscribe_first(
             Unsubscribe(Subscribe(cn, ts[i]), ts[i]), ts, i + 1)

RECURSIVE SendTopicsConn(_, _, _)
SendTopicsConn(cn, ts, i) ==
    IF i > Len(ts) THEN cn
    ELSE SendTopicsConn(Subscribe(Unsubscribe(cn, ts[i]), ts[i]), ts, i + 1)

\* send_topics: for each topic, unsubscribe then subscribe
send_topics_conns(cs, c, unique) ==
    [cs EXCEPT ![c] = SendTopicsConn(@, Topics(unique), 1)]

RECURSIVE SendTopicsCalls(_, _)
SendTopicsCalls(ts, i) ==
    IF i > Len(ts) THEN <<>>
    ELSE <<Call("unsubscribe", ts[i], NoneStr), Call("subscribe", ts[i], NoneStr)>>
         \o SendTopicsCalls(ts, i + 1)

send_topics_calls(unique) == SendTopicsCalls(Topics(unique), 1)

RECURSIVE UnsubscribeAll(_, _, _)
UnsubscribeAll(cn, ts, i) ==
    IF i > Len(ts) THEN cn ELSE UnsubscribeAll(Unsubscribe(cn, ts[i]), ts, i + 1)

\* disconnect(): unsubscribe each topic, client.disconnect(), client.loop_stop()
disconnect_conns(cs, c, unique) ==
    [cs EXCEPT ![c] = LoopStop(Close(UnsubscribeAll(@, Topics(unique), 1)))]

\* a teardown that closes the connection before it unsubscribes
disconnect_calls_close_first(unique) ==
    <<Call("disconnect", <<>>, NoneStr)>>
    \o [i \in 1..Len(subscribe_topics) |->
          Call("unsubscribe", Topics(unique)[i], NoneStr)]
    \o <<Call("loop_stop", <<>>, NoneStr), Call("stop_scheduler", <<>>, NoneStr)>>

disconnect_calls(unique) ==
    [i \in 1..Len(subscribe_topics) |-> Call("unsubscribe", Topics(unique)[i], NoneStr)]
    \o <<Call("disconnect", <<>>, NoneStr), Call("loop_stop", <<>>, NoneStr),
         Call("stop_scheduler", <<>>, NoneStr)>>

\* init_mqtt_client with a token: the client object is connected
\* (client.connect) and its network loop started (client.loop_start)
OpenConn(tok) == [NewConn(tok) EXCEPT !.open = TRUE, !.loop = TRUE]

init_calls ==
    <<Call("connect", <<>>, NoneStr), Call("start_scheduler", <<>>, NoneStr),
      Call("loop_start", <<>>, NoneStr)>>

\* ------------------------------------------------------------ sub-handlers
\* stop_scheduler sets the flag and cancels and clears the task; the jobs the
\* task registered with aiocron are not touched
stop_scheduler_effect ==
    /\ stop_scheduler_loop' = TRUE
    /\ scheduler_task' = "none"

\* disconnect() on the client object self.client (which must exist)
disconnect_effect(cs, unique, pre) ==
    /\ conns' = disconnect_conns(cs, client, unique)
    /\ stop_scheduler_effect
    /\ oplog' = pre \o disconnect_calls(unique)

\* an open() that does not tear the previous connection down
init_mqtt_client_keep_old(cs, td, unique, pre) ==
    /\ client' = Len(cs) + 1
    /\ UNCHANGED stop_scheduler_loop
    /\ IF IsNone(td)
       THEN /\ conns' = Append(cs, NewConn(NoneStr))
            /\ oplog' = pre
            /\ UNCHANGED scheduler_task
       ELSE /\ conns' = Append(cs, OpenConn(Val(td).access_token))
            /\ oplog' = pre \o init_calls
            /\ scheduler_task' = "pending"

\* init_mqtt_client(): cs is conns as the handler has left it so far, td the
\* stored token data, unique the current installation, pre the calls so far.
\* Without token data the subscript self.token_data['access_token'] raises
\* TypeError after the new client object has been stored.
init_mqtt_client(cs, td, unique, pre) ==
    LET torn == IF client # 0 THEN disconnect_conns(cs, client, unique) ELSE cs
        tcalls == IF client # 0 THEN disconnect_calls(unique) ELSE <<>>
    IN  /\ client' = Len(cs) + 1
        /\ IF IsNone(td)
           THEN /\ conns' = Append(torn, NewConn(NoneStr))
                /\ oplog' = pre \o tcalls
                /\ stop_scheduler_loop' = (stop_scheduler_loop \/ client # 0)
                /\ scheduler_task' = IF client # 0 THEN "none" ELSE scheduler_task
           ELSE /\ conns' = Append(torn, OpenConn(Val(td).access_token))
                /\ oplog' = pre \o tcalls \o init_calls
                /\ stop_scheduler_loop' = (stop_scheduler_loop \/ client # 0)
                /\ scheduler_task' = "pending"

CanOpen == Len(conns) < MaxConns

\* the event loop runs a task created by the previous handler before any
\* later callback
LoopIdle == scheduler_task # "pending"

\* ------------------------------------------------- installation model store
\* publish_updates: every registered observer is invoked once
publish_updates(n) == [o \in Observers |-> IF o \in callbacks THEN n[o] + 1 ELSE n[o]]

\* handlers.parse_installations: each raw install becomes an Installation whose
\* operating mode and live telemetry are the carried-over values
parse_installation(raw, mode, pumpOn, setpoint, supply, return, opening) ==
    [id |-> raw._id, unique |-> raw.unique, operating_mode |-> mode,
     groups |-> raw.groups, pumpOn |-> pumpOn,
     mixed_circuit1_setpoint |-> setpoint, mixed_circuit1_supply |-> supply,
     mixed_circuit1_return |-> return, mixed_circuit1_opening |-> opening]

parse_installations(raws, mode, pumpOn, setpoint, supply, return, opening) ==
    [i \in 1..Len(raws) |->
        parse_installation(raws[i], mode, pumpOn, setpoint, supply, return, opening)]

Min(S) == CHOOSE x \in S : \A y \in S : x <= y

\* set_install_id: the first install whose unique is the user's defaultInstall;
\* without one the current installation stays as it is
set_install_id(u, cur) ==
    LET m == {i \in 1..Len(u.installs) : u.installs[i].unique = u.defaultInstall}
    IN  IF m = {} THEN cur
        ELSE LET inst == u.installs[Min(m)]
             IN  [id |-> inst._id, unique |-> inst.unique,
                  hash |-> IF "hash" \in DOMAIN inst THEN inst.hash ELSE NoneStr]

\* a guard that does not look at the number of groups
HasGroups_listed(installs) ==
    /\ Len(installs) > 0
    /\ "groups" \in DOMAIN installs[1]

\* the guard of set_installations
HasGroups(installs) ==
    /\ Len(installs) > 0
    /\ "groups" \in DOMAIN installs[1]
    /\ Len(installs[1].groups) > 0

HasModeHint(u) ==
    /\ Len(u.installs) > 0
    /\ "user" \in DOMAIN u.installs[1]
    /\ "heatcool_auto_01" \in DOMAIN u.installs[1].user

\* set_user, with set_installations and update_installations
set_user(u) ==
    /\ user' = Some(u)
    /\ UNCHANGED callbacks
    /\ last_operating_mode' =
          IF "installs" \in DOMAIN u /\ HasModeHint(u)
          THEN u.installs[1].user.heatcool_auto_01 ELSE last_operating_mode
    /\ IF "installs" \in DOMAIN u /\ ~IsNone(installations)
       THEN LET first == Val(installations)[1]
            IN  /\ last_pumpOn' = first.pumpOn
                /\ last_mc1_setpoint' = first.mixed_circuit1_setpoint
                /\ last_mc1_supply' = first.mixed_circuit1_supply
                /\ last_mc1_return' = first.mixed_circuit1_return
                /\ last_mc1_opening' = first.mixed_circuit1_opening
       ELSE UNCHANGED <<last_pumpOn, last_mc1_setpoint, last_mc1_supply,
                        last_mc1_return, last_mc1_opening>>
    /\ IF "installs" \in DOMAIN u /\ HasGroups(u.installs)
       THEN /\ installations' =
                  Some(parse_installations(u.installs, last_operating_mode',
                          last_pumpOn', last_mc1_setpoint', last_mc1_supply',
                          last_mc1_return', last_mc1_opening'))
            /\ notified' = publish_updates(NotNotified)
            /\ current_installation' = set_install_id(u, current_installation)
       ELSE /\ UNCHANGED <<installations, current_installation>>
            /\ notified' = NotNotified

StoreUnchanged ==
    /\ UNCHANGED <<user, installations, last_operating_mode, last_pumpOn,
                   last_mc1_setpoint, last_mc1_supply, last_mc1_return,
                   last_mc1_opening, current_installation, callbacks>>
    /\ notified' = NotNotified

\* ------------------------------------------------------- identity service
Ok(td, u) == [kind |-> "ok", td |-> td, user |-> u]
Failed(e) == [kind |-> e]
Failures == {Failed("AuthenticationError"), Failed("CommunicationError")}

\* handlers.auth / handlers.refresh / handlers.read_user_state
AuthOutcomes == {Ok(td, u) : td \in TokenDatas, u \in SessionUsers} \cup Failures
RefreshOutcomes == {Ok(td, <<>>) : td \in TokenDatas} \cup Failures
ReadOutcomes == {Ok(<<>>, u) : u \in SessionUsers} \cup {Failed("none")} \cup Failures

\* --------------------------------------------------- auth & token manager
\* auth_user: cs and pre are the connections and calls of the handler so far
auth_user_body(cs, pre, a) ==
    IF a.kind = "ok"
    THEN /\ CanOpen
         /\ token_data' = Some(a.td)
         /\ set_user(a.user)
         /\ init_mqtt_client(cs, token_data', (current_installation').unique,
                             pre \o <<Svc("auth", a)>>)
         /\ raised' = "none"
    ELSE /\ raised' = a.kind
         /\ conns' = cs
         /\ oplog' = pre \o <<Svc("auth", a)>>
         /\ StoreUnchanged
         /\ UNCHANGED <<token_data, client, stop_scheduler_loop, scheduler_task>>

\* a refresh that reconnects before it stores the new token data
refresh_succeeded_stale(cs, pre, td) ==
    /\ CanOpen
    /\ init_mqtt_client(cs, token_data, current_installation.unique, pre)
    /\ token_data' = Some(td)
    /\ raised' = "none"
    /\ StoreUnchanged

\* refresh_token, the try block after refresh() has returned td:
\* set_token_data(td), then reconnect()
refresh_succeeded(cs, pre, td) ==
    /\ CanOpen
    /\ token_data' = Some(td)
    /\ init_mqtt_client(cs, token_data', current_installation.unique, pre)
    /\ raised' = "none"
    /\ StoreUnchanged

\* a refresh_token without the except clause
refresh_failed_uncaught(cs, pre, e) ==
    /\ raised' = e
    /\ conns' = cs
    /\ oplog' = pre
    /\ StoreUnchanged
    /\ UNCHANGED <<token_data, client, stop_scheduler_loop, scheduler_task>>

\* refresh_token, what follows a refresh() that raised e: only
\* MqttClientAuthenticationError is caught, and answered by auth_user()
refresh_failed(cs, pre, e) ==
    IF e = "AuthenticationError"
    THEN \E a \in AuthOutcomes : auth_user_body(cs, pre, a)
    ELSE /\ raised' = e
         /\ conns' = cs
         /\ oplog' = pre
         /\ StoreUnchanged
         /\ UNCHANGED <<token_data, client, stop_scheduler_loop, scheduler_task>>

\* refresh_token: without token data the subscript
\* self.token_data["refresh_token"] raises TypeError
refresh_token_body(cs, pre, f) ==
    IF IsNone(token_data)
    THEN /\ raised' = "TypeError"
         /\ conns' = cs
         /\ oplog' = pre
         /\ StoreUnchanged
         /\ UNCHANGED <<token_data, client, stop_scheduler_loop, scheduler_task>>
    ELSE IF f.kind = "ok"
    THEN refresh_succeeded(cs, pre \o <<Svc("refresh", f)>>, f.td)
    ELSE refresh_failed(cs, pre \o <<Svc("refresh", f)>>, f.kind)

auth_user ==
    /\ LoopIdle
    /\ \E a \in AuthOutcomes : auth_user_body(conns, NoCalls, a)
    /\ last' = "auth_user"
    /\ UNCHANGED pc
    /\ UNCHANGED <<authenticated, crons, number_of_retries,
                   number_of_message_failures>>

refresh_token ==
    /\ LoopIdle
    /\ \E f \in RefreshOutcomes : refresh_token_body(conns, NoCalls, f)
    /\ last' = "refresh_token"
    /\ UNCHANGED pc
    /\ UNCHANGED <<authenticated, crons, number_of_retries,
                   number_of_message_failures>>

reconnect ==
    /\ LoopIdle
    /\ CanOpen
    /\ init_mqtt_client(conns, token_data, current_installation.unique, NoCalls)
    /\ raised' = IF IsNone(token_data) THEN "TypeError" ELSE "none"
    /\ last' = "reconnect"
    /\ UNCHANGED pc
    /\ StoreUnchanged
    /\ UNCHANGED <<token_data, authenticated, crons, number_of_retries,
                   number_of_message_failures>>

\* disconnect(): on a client that was never opened self.client is None and the
\* first unsubscribe raises AttributeError
disconnect ==
    /\ LoopIdle
    /\ IF client = 0
       THEN /\ raised' = "AttributeError"
            /\ oplog' = NoCalls
            /\ UNCHANGED <<conns, stop_scheduler_loop, scheduler_task>>
       ELSE /\ raised' = "none"
            /\ disconnect_effect(conns, current_installation.unique, NoCalls)
    /\ last' = "disconnect"
    /\ UNCHANGED pc
    /\ StoreUnchanged
    /\ UNCHANGED <<token_data, authenticated, client, crons, number_of_retries,
                   number_of_message_failures>>

stop_scheduler ==
    /\ LoopIdle
    /\ stop_scheduler_effect
    /\ oplog' = <<Call("stop_scheduler", <<>>, NoneStr)>>
    /\ raised' = "none"
    /\ last' = "stop_scheduler"
    /\ UNCHANGED pc
    /\ StoreUnchanged
    /\ UNCHANGED <<token_data, authenticated, client, conns, crons,
                   number_of_retries, number_of_message_failures>>

\* -------------------------------------------------------------- publishing
\* client.publish returns an error code on a client without a live link; with
\* one, either result is possible
PublishResults(cs) ==
    {FALSE} \cup (IF client # 0 /\ cs[client].link THEN {TRUE} ELSE {})

\* a failure that is already reported at the fifth in a row
failure_reported_from_fifth(n) == n >= 5

\* if self.number_of_message_failures > 5: _LOGGER.error(...)
failure_reported(n) == n > 5

\* send_message: calls are the calls of the handler up to and including the
\* publish; the result code of the publish decides the consecutive-failure
\* counter, and past the threshold the failure is logged as an error
send_message(ok, calls) ==
    /\ ok \/ number_of_message_failures < MaxFailures
    /\ number_of_message_failures' =
          IF ok THEN 0 ELSE number_of_message_failures + 1
    /\ oplog' =
          calls
          \o <<Returned(IF ok THEN "MQTT_ERR_SUCCESS" ELSE "MQTT_ERR_NO_CONN")>>
          \o (IF ~ok /\ failure_reported(number_of_message_failures')
              THEN <<Call("_LOGGER.error", <<>>, NoneStr)>> ELSE <<>>)

token_of(td) == IF IsNone(td) THEN NoneStr ELSE Val(td).access_token

request_server_referentials_calls ==
    <<Call("publish",
           replace_wildcards(USER_REFERENTIAL, current_installation.unique),
           token_of(token_data))>>

refresh_live_data_calls ==
    <<Call("publish",
           replace_wildcards(INSTALLATION, current_installation.unique), NoneStr)>>

\* ------------------------------------------------------- transport events
\* on_connect, called by the network loop when the broker accepts the link
on_connect ==
    /\ client # 0
    /\ conns[client].open /\ conns[client].loop /\ ~conns[client].link
    /\ authenticated' = TRUE
    /\ LET up == [conns EXCEPT ![client].link = TRUE]
       IN  /\ conns' = send_topics_conns(up, client, current_installation.unique)
           /\ \E ok \in PublishResults(up) :
                 send_message(ok, send_topics_calls(current_installation.unique)
                                  \o request_server_referentials_calls)
    /\ raised' = "none"
    /\ last' = "on_connect"
    /\ UNCHANGED pc
    /\ StoreUnchanged
    /\ UNCHANGED <<token_data, client, stop_scheduler_loop, scheduler_task,
                   crons, number_of_retries>>

\* a ceiling check that already stops at the fifth disconnect
within_retry_ceiling_strict(n) == n < MAX_CONNECT_RETRIES

\* self.number_of_retries <= self.MAX_CONNECT_RETRIES
within_retry_ceiling(n) == n <= MAX_CONNECT_RETRIES

\* on_disconnect(rc): rc # 0 when the link was lost, rc = 0 after the client
\* closed it itself
on_disconnect(rc) ==
    /\ client # 0
    /\ IF rc # 0
       THEN /\ conns[client].link
            /\ number_of_retries < MaxRetries
            /\ number_of_retries' = number_of_retries + 1
            /\ LET down == [conns EXCEPT ![client].link = FALSE,
                                         ![client].subs = {}]
               IN  IF within_retry_ceiling(number_of_retries')
                   THEN /\ conns' = down
                        /\ oplog' = NoCalls
                        /\ UNCHANGED <<stop_scheduler_loop, scheduler_task>>
                   ELSE disconnect_effect(down, current_installation.unique,
                                          NoCalls)
       ELSE /\ ~conns[client].open
            /\ oplog' = NoCalls
            /\ UNCHANGED <<conns, number_of_retries, stop_scheduler_loop,
                           scheduler_task>>
    /\ raised' = "none"
    /\ last' = IF rc # 0 THEN "on_disconnect" ELSE "on_disconnect_0"
    /\ UNCHANGED pc
    /\ StoreUnchanged
    /\ UNCHANGED <<token_data, authenticated, client, crons,
                   number_of_message_failures>>

ResultCodes == {0, 1}

on_disconnect_event == \E rc \in ResultCodes : on_disconnect(rc)

\* ---------------------------------------------------------------- scheduler
\* start_scheduler_task, first run of the task: the three jobs are registered
\* with aiocron, then the task loops until the stop flag is set
start_scheduler_task ==
    /\ scheduler_task = "pending"
    /\ crons' = crons + 1
    /\ scheduler_task' = IF stop_scheduler_loop THEN "done" ELSE "running"
    /\ oplog' = NoCalls
    /\ raised' = "none"
    /\ last' = "start_scheduler_task"
    /\ UNCHANGED pc
    /\ StoreUnchanged
    /\ UNCHANGED <<token_data, authenticated, client, conns,
                   stop_scheduler_loop, number_of_retries,
                   number_of_message_failures>>

\* a registered job fires whenever its cron time comes
JobDue == crons > 0 /\ LoopIdle

\* a poll that leaves the retry counter as it is
retries_after_poll_kept == number_of_retries

\* refresh_http: self.number_of_retries = 0
retries_after_poll == 0

\* a poll that answers every failure of the directory call with a refresh
poll_refreshes_on_any_error(kind) ==
    kind \in {"AuthenticationError", "CommunicationError"}

\* read_user_http: except MqttClientAuthenticationError: refresh_token()
poll_refreshes(kind) == kind = "AuthenticationError"

\* refresh_http with read_user_http
refresh_http ==
    /\ JobDue
    /\ number_of_retries' = retries_after_poll
    /\ LET unique == current_installation.unique
           cs == send_topics_conns(conns, client, unique)
           pre == send_topics_calls(unique)
       IN  IF IsNone(installations)
           THEN \* get_install_ids iterates None
                /\ raised' = "TypeError"
                /\ conns' = cs
                /\ oplog' = pre
                /\ StoreUnchanged
                /\ UNCHANGED <<token_data, client, stop_scheduler_loop,
                               scheduler_task>>
           ELSE \E r \in ReadOutcomes :
                IF r.kind = "ok"
                THEN /\ set_user(r.user)
                     /\ raised' = "none"
                     /\ conns' = cs
                     /\ oplog' = pre \o <<Svc("read_user_state", r)>>
                     /\ UNCHANGED <<token_data, client, stop_scheduler_loop,
                                    scheduler_task>>
                ELSE IF poll_refreshes(r.kind)
                THEN \E f \in RefreshOutcomes :
                        refresh_token_body(
                            cs, pre \o <<Svc("read_user_state", r)>>, f)
                ELSE /\ raised' = "none"
                     /\ conns' = cs
                     /\ oplog' = pre \o <<Svc("read_user_state", r)>>
                     /\ StoreUnchanged
                     /\ UNCHANGED <<token_data, client, stop_scheduler_loop,
                                    scheduler_task>>
    /\ last' = "refresh_http"
    /\ UNCHANGED pc
    /\ UNCHANGED <<authenticated, crons, number_of_message_failures>>

refresh_live_data ==
    /\ JobDue
    /\ \E ok \in PublishResults(conns) : send_message(ok, refresh_live_data_calls)
    /\ raised' = "none"
    /\ last' = "refresh_live_data"
    /\ UNCHANGED pc
    /\ StoreUnchanged
    /\ UNCHANGED <<token_data, authenticated, client, conns,
                   stop_scheduler_loop, scheduler_task, crons,
                   number_of_retries>>

request_server_referentials ==
    /\ JobDue
    /\ \E ok \in PublishResults(conns) :
          send_message(ok, request_server_referentials_calls)
    /\ raised' = "none"
    /\ last' = "request_server_referentials"
    /\ UNCHANGED pc
    /\ StoreUnchanged
    /\ UNCHANGED <<token_data, authenticated, client, conns,
                   stop_scheduler_loop, scheduler_task, crons,
                   number_of_retries>>

Next ==
    \/ auth_user
    \/ refresh_token
    \/ reconnect
    \/ disconnect
    \/ stop_scheduler
    \/ on_connect
    \/ on_disconnect_event
    \/ start_scheduler_task
    \/ refresh_http
    \/ refresh_live_data
    \/ request_server_referentials

Spec == Init /\ [][Next]_vars

\* ---------------------------------------------- store operations (messages)
Telemetry(p, sp, su, re, op) ==
    [pumpOn |-> p, mixed_circuit1_setpoint |-> sp, mixed_circuit1_supply |-> su,
     mixed_circuit1_return |-> re, mixed_circuit1_opening |-> op]

\* pumpOn is a Python bool, which is the integer 0 or 1
LiveValues == {Telemetry(1, 21, 35, 30, 50), Telemetry(0, 22, 36, 31, 51)}

InstallIds == {"a", "b", "zz"}
ChannelIds == {"c1", "c2", "c3", "cx"}

LivePayloads == {[install_id |-> i, data |-> t] : i \in InstallIds, t \in LiveValues}

ChannelPayloads ==
    {[install_id |-> i, channel_id |-> c, mode_used |-> 2, setpoint_used |-> 23] :
        i \in InstallIds, c \in ChannelIds}

\* next(installation for installation in self.installations if ...), 0 for None
FindInstallation(insts, install_id) ==
    LET m == {i \in 1..Len(insts) : insts[i].unique = install_id}
    IN  IF m = {} THEN 0 ELSE Min(m)

ChannelPaths(inst) ==
    UNION {UNION {{<<g, z, c>> : c \in 1..Len(inst.groups[g].zones[z].channels)} :
                    z \in 1..Len(inst.groups[g].zones)} :
             g \in 1..Len(inst.groups)}

ChannelAt(inst, p) == inst.groups[p[1]].zones[p[2]].channels[p[3]]

Before(p, q) ==
    \/ p[1] < q[1]
    \/ p[1] = q[1] /\ p[2] < q[2]
    \/ p[1] = q[1] /\ p[2] = q[2] /\ p[3] <= q[3]

\* the channel the three nested loops reach first, <<>> when none matches
FindChannel(inst, channel_id) ==
    LET m == {p \in ChannelPaths(inst) : ChannelAt(inst, p).id = channel_id}
    IN  IF m = {} THEN <<>> ELSE CHOOSE p \in m : \A q \in m : Before(p, q)

SetChannel(inst, p, mode_used, setpoint_used) ==
    [inst EXCEPT
        !.groups[p[1]].zones[p[2]].channels[p[3]].energy_level = mode_used,
        !.groups[p[1]].zones[p[2]].channels[p[3]].target_temperature = setpoint_used]

\* an update that leaves the pump state out
SetLiveData_without_pumpOn(inst, t) ==
    [inst EXCEPT !.mixed_circuit1_setpoint = t.mixed_circuit1_setpoint,
                 !.mixed_circuit1_supply = t.mixed_circuit1_supply,
                 !.mixed_circuit1_return = t.mixed_circuit1_return,
                 !.mixed_circuit1_opening = t.mixed_circuit1_opening]

SetLiveData(inst, t) ==
    [inst EXCEPT !.pumpOn = t.pumpOn,
                 !.mixed_circuit1_setpoint = t.mixed_circuit1_setpoint,
                 !.mixed_circuit1_supply = t.mixed_circuit1_supply,
                 !.mixed_circuit1_return = t.mixed_circuit1_return,
                 !.mixed_circuit1_opening = t.mixed_circuit1_opening]

StoreFrame ==
    UNCHANGED <<user, last_operating_mode, last_pumpOn, last_mc1_setpoint,
                last_mc1_supply, last_mc1_return, last_mc1_opening,
                current_installation, callbacks>>

\* update_live_data: iterating self.installations raises TypeError while it
\* is None
update_live_data(payload) ==
    /\ IF IsNone(installations)
       THEN /\ raised' = "TypeError"
            /\ notified' = NotNotified
            /\ UNCHANGED installations
       ELSE LET i == FindInstallation(Val(installations), payload.install_id)
            IN  IF i = 0
                THEN /\ raised' = "MqttClientError"
                     /\ notified' = NotNotified
                     /\ UNCHANGED installations
                ELSE /\ raised' = "none"
                     /\ installations' =
                           Some([Val(installations) EXCEPT
                                    ![i] = SetLiveData(@, payload.data)])
                     /\ notified' = publish_updates(NotNotified)
    /\ last' = "update_live_data"
    /\ oplog' = NoCalls
    /\ StoreFrame
    /\ UNCHANGED session_vars

update_channel(payload) ==
    /\ IF IsNone(installations)
       THEN /\ raised' = "TypeError"
            /\ notified' = NotNotified
            /\ UNCHANGED installations
       ELSE LET i == FindInstallation(Val(installations), payload.install_id)
                p == IF i = 0 THEN <<>>
                     ELSE FindChannel(Val(installations)[i], payload.channel_id)
            IN  IF i = 0 \/ p = <<>>
                THEN /\ raised' = "MqttClientError"
                     /\ notified' = NotNotified
                     /\ UNCHANGED installations
                ELSE /\ raised' = "none"
                     /\ installations' =
                           Some([Val(installations) EXCEPT
                                    ![i] = SetChannel(@, p, payload.mode_used,
                                                      payload.setpoint_used)])
                     /\ notified' = publish_updates(NotNotified)
    /\ last' = "update_channel"
    /\ oplog' = NoCalls
    /\ StoreFrame
    /\ UNCHANGED session_vars

\* an operation on the set self.callbacks and whether it found the observer
SetOp(op, o, present) == [setop |-> op, observer |-> o, present |-> present]

\* self.callbacks.add(callback)
register_callback(o) ==
    /\ callbacks' = callbacks \cup {o}
    /\ notified' = NotNotified
    /\ raised' = "none"
    /\ last' = "register_callback"
    /\ oplog' = <<SetOp("add", o, o \in callbacks)>>
    /\ UNCHANGED <<user, installations, last_operating_mode, last_pumpOn,
                   last_mc1_setpoint, last_mc1_supply, last_mc1_return,
                   last_mc1_opening, current_installation>>
    /\ UNCHANGED session_vars

\* a removal with set.remove, which raises KeyError for a missing element
remove_callback_strict(o) ==
    /\ callbacks' = callbacks \ {o}
    /\ notified' = NotNotified
    /\ raised' = IF o \in callbacks THEN "none" ELSE "KeyError"
    /\ last' = "remove_callback"
    /\ oplog' = <<SetOp("discard", o, o \in callbacks)>>
    /\ UNCHANGED <<user, installations, last_operating_mode, last_pumpOn,
                   last_mc1_setpoint, last_mc1_supply, last_mc1_return,
                   last_mc1_opening, current_installation>>
    /\ UNCHANGED session_vars

\* self.callbacks.discard(callback)
remove_callback(o) ==
    /\ callbacks' = callbacks \ {o}
    /\ notified' = NotNotified
    /\ raised' = "none"
    /\ last' = "remove_callback"
    /\ oplog' = <<SetOp("discard", o, o \in callbacks)>>
    /\ UNCHANGED <<user, installations, last_operating_mode, last_pumpOn,
                   last_mc1_setpoint, last_mc1_supply, last_mc1_return,
                   last_mc1_opening, current_installation>>
    /\ UNCHANGED session_vars

\* set_user as the message router and the poll call it, with any user record
Input(x) == [input |-> x]

set_user_call ==
    /\ \E u \in Users :
          /\ set_user(u)
          /\ oplog' = <<Input(u)>>
    /\ raised' = "none"
    /\ last' = "set_user"
    /\ UNCHANGED session_vars

update_live_data_call == \E payload \in LivePayloads : update_live_data(payload)
update_channel_call == \E payload \in ChannelPayloads : update_channel(payload)
register_callback_call == \E o \in Observers : register_callback(o)
remove_callback_call == \E o \in Observers : remove_callback(o)

NextStore ==
    \/ set_user_call
    \/ update_live_data_call
    \/ update_channel_call
    \/ register_callback_call
    \/ remove_callback_call

SpecStore == Init /\ [][NextStore]_vars

\* ------------------------------------------- authenticate, then live data
is_ready == ~IsNone(user) /\ ~IsNone(installations)

\* an identity service that accepts the login and returns a user with one
\* install that has one group
OneGroupOutcomes == {Ok(td, UserOneGroup) : td \in TokenDatas}

auth_user_one_group ==
    /\ LoopIdle
    /\ \E a \in OneGroupOutcomes : auth_user_body(conns, NoCalls, a)
    /\ last' = "auth_user"
    /\ UNCHANGED pc
    /\ UNCHANGED <<authenticated, crons, number_of_retries,
                   number_of_message_failures>>

NextEndToEnd ==
    \/ auth_user_one_group
    \/ start_scheduler_task
    \/ on_connect
    \/ register_callback_call
    \/ remove_callback_call
    \/ update_live_data_call

SpecEndToEnd == Init /\ [][NextEndToEnd]_vars

\* ------------------------------------------------- topic resolver, called
\* replace_wildcards(topic) on the session as it is: the result is returned,
\* or KeyError leaves the call
replace_wildcards_call ==
    /\ \E topic \in Templates :
          LET unique == current_installation.unique
          IN  IF RaisesKeyError(topic, unique)
              THEN /\ raised' = "KeyError"
                   /\ oplog' = <<Call("replace_wildcards", topic, NoneStr)>>
              ELSE /\ raised' = "none"
                   /\ oplog' = <<Call("replace_wildcards", topic, NoneStr),
                                 Returned(replace_wildcards(topic, unique))>>
    /\ last' = "replace_wildcards"
    /\ StoreUnchanged
    /\ UNCHANGED session_vars

NextTopics ==
    \/ set_user_call
    \/ replace_wildcards_call

SpecTopics == Init /\ [][NextTopics]_vars

\* ------------------------------- session context and network thread, by step
\* init_mqtt_client runs on the session context and the on_disconnect callback
\* on the network thread of its client (loop_start); each statement of the two
\* is a step, and every self.client in it is read when the step runs.
\*
\* A client object with the position of its network thread inside the
\* on_disconnect callback and, for the record, who closed it, whether a
\* scheduler task was started for it and who cancelled that task: 0 is the
\* session context, k the network thread of connection k.
ThreadedConn(tok) ==
    [password |-> tok, open |-> FALSE, link |-> FALSE, loop |-> FALSE,
     subs |-> {}, callback |-> "idle", closed_by |-> {}, task |-> "none",
     cancelled_by |-> {}]

CloseBy(cn, who) == [Close(cn) EXCEPT !.closed_by = @ \cup {who}]

Max(S) == CHOOSE x \in S : \A y \in S : x >= y

\* stop_scheduler run by who: the task self.scheduler_task refers to, the one
\* started last, is cancelled
CancelBy(cs, who) ==
    LET started == {j \in DOMAIN cs : cs[j].task = "pending"}
    IN  IF scheduler_task = "none" \/ started = {} THEN cs
        ELSE [cs EXCEPT ![Max(started)].task = "cancelled",
                        ![Max(started)].cancelled_by = @ \cup {who}]

\* a loop_stop that does not wait for the network thread
joined_without_wait(k) == TRUE

\* client.loop_stop() called from another thread joins the network thread: it
\* returns when that thread has left its callback and ended
joined(k) == conns[k].callback = "idle"

SessionStep(name) ==
    /\ last' = name
    /\ raised' = "none"
    /\ oplog' = NoCalls
    /\ UNCHANGED <<authenticated, crons, number_of_retries,
                   number_of_message_failures>>

\* auth_user up to the call of init_mqtt_client, and its test of self.client
auth_user_begin ==
    /\ pc = "idle"
    /\ CanOpen
    /\ \E a \in OneGroupOutcomes :
          /\ token_data' = Some(a.td)
          /\ set_user(a.user)
    /\ pc' = IF client # 0 THEN "unsubscribe" ELSE "new_client"
    /\ SessionStep("auth_user")
    /\ UNCHANGED <<client, conns, stop_scheduler_loop, scheduler_task>>

\* disconnect(), the loop of self.client.unsubscribe
init_unsubscribe ==
    /\ pc = "unsubscribe"
    /\ conns' = [conns EXCEPT
                    ![client] = UnsubscribeAll(
                        @, Topics(current_installation.unique), 1)]
    /\ pc' = "disconnect"
    /\ SessionStep("init_unsubscribe")
    /\ StoreUnchanged
    /\ UNCHANGED <<token_data, client, stop_scheduler_loop, scheduler_task>>

\* disconnect(), self.client.disconnect()
init_disconnect ==
    /\ pc = "disconnect"
    /\ conns' = [conns EXCEPT ![client] = CloseBy(@, 0)]
    /\ pc' = "loop_stop"
    /\ SessionStep("init_disconnect")
    /\ StoreUnchanged
    /\ UNCHANGED <<token_data, client, stop_scheduler_loop, scheduler_task>>

\* disconnect(), self.client.loop_stop()
init_loop_stop ==
    /\ pc = "loop_stop"
    /\ joined(client)
    /\ conns' = [conns EXCEPT ![client] = LoopStop(@)]
    /\ pc' = "stop_scheduler"
    /\ SessionStep("init_loop_stop")
    /\ StoreUnchanged
    /\ UNCHANGED <<token_data, client, stop_scheduler_loop, scheduler_task>>

\* disconnect(), self.stop_scheduler()
init_stop_scheduler ==
    /\ pc = "stop_scheduler"
    /\ conns' = CancelBy(conns, 0)
    /\ stop_scheduler_effect
    /\ pc' = "new_client"
    /\ SessionStep("init_stop_scheduler")
    /\ StoreUnchanged
    /\ UNCHANGED <<token_data, client>>

\* self.client = mqtt.Client(...) and its configuration
init_new_client ==
    /\ pc = "new_client"
    /\ conns' = Append(conns, ThreadedConn(Val(token_data).access_token))
    /\ client' = Len(conns) + 1
    /\ pc' = "connect"
    /\ SessionStep("init_new_client")
    /\ StoreUnchanged
    /\ UNCHANGED <<token_data, stop_scheduler_loop, scheduler_task>>

\* self.client.connect(...)
init_connect ==
    /\ pc = "connect"
    /\ conns' = [conns EXCEPT ![client].open = TRUE]
    /\ pc' = "start_scheduler"
    /\ SessionStep("init_connect")
    /\ StoreUnchanged
    /\ UNCHANGED <<token_data, client, stop_scheduler_loop, scheduler_task>>

\* self.start_scheduler()
init_start_scheduler ==
    /\ pc = "start_scheduler"
    /\ conns' = [conns EXCEPT ![client].task = "pending"]
    /\ scheduler_task' = "pending"
    /\ pc' = "loop_start"
    /\ SessionStep("init_start_scheduler")
    /\ StoreUnchanged
    /\ UNCHANGED <<token_data, client, stop_scheduler_loop>>

\* self.start_mqtt_client(): the network thread of the new client starts
init_loop_start ==
    /\ pc = "loop_start"
    /\ conns' = [conns EXCEPT ![client].loop = TRUE]
    /\ pc' = "idle"
    /\ SessionStep("init_loop_start")
    /\ StoreUnchanged
    /\ UNCHANGED <<token_data, client, stop_scheduler_loop, scheduler_task>>

ThreadStep(name) ==
    /\ last' = name
    /\ raised' = "none"
    /\ oplog' = NoCalls
    /\ StoreUnchanged
    /\ UNCHANGED <<token_data, authenticated, client, crons,
                   number_of_message_failures, pc>>

\* on_disconnect(rc # 0) on the network thread of connection k, up to the
\* call of self.disconnect()
thread_on_disconnect(k) ==
    /\ conns[k].loop /\ conns[k].link /\ conns[k].callback = "idle"
    /\ number_of_retries < MaxRetries
    /\ number_of_retries' = number_of_retries + 1
    /\ conns' = [conns EXCEPT
                    ![k].link = FALSE, ![k].subs = {},
                    ![k].callback =
                        IF within_retry_ceiling(number_of_retries')
                        THEN "idle" ELSE "unsubscribe"]
    /\ ThreadStep("on_disconnect")
    /\ UNCHANGED <<stop_scheduler_loop, scheduler_task>>

\* disconnect() called by the callback: the loop of self.client.unsubscribe
thread_unsubscribe(k) ==
    /\ conns[k].callback = "unsubscribe"
    /\ LET cs == [conns EXCEPT
                     ![client] = UnsubscribeAll(
                         @, Topics(current_installation.unique), 1)]
       IN  conns' = [cs EXCEPT ![k].callback = "disconnect"]
    /\ ThreadStep("thread_unsubscribe")
    /\ UNCHANGED <<number_of_retries, stop_scheduler_loop, scheduler_task>>

\* self.client.disconnect()
thread_disconnect(k) ==
    /\ conns[k].callback = "disconnect"
    /\ LET cs == [conns EXCEPT ![client] = CloseBy(@, k)]
       IN  conns' = [cs EXCEPT ![k].callback = "loop_stop"]
    /\ ThreadStep("thread_disconnect")
    /\ UNCHANGED <<number_of_retries, stop_scheduler_loop, scheduler_task>>

\* self.client.loop_stop(): on the thread's own client it only asks the
\* thread to end, on another client it joins that client's thread
thread_loop_stop(k) ==
    /\ conns[k].callback = "loop_stop"
    /\ client # k => joined(client)
    /\ LET cs == [conns EXCEPT ![client] = LoopStop(@)]
       IN  conns' = [cs EXCEPT ![k].callback = "stop_scheduler"]
    /\ ThreadStep("thread_loop_stop")
    /\ UNCHANGED <<number_of_retries, stop_scheduler_loop, scheduler_task>>

\* self.stop_scheduler(), after which the callback returns
thread_stop_scheduler(k) ==
    /\ conns[k].callback = "stop_scheduler"
    /\ conns' = [CancelBy(conns, k) EXCEPT ![k].callback = "idle"]
    /\ stop_scheduler_effect
    /\ ThreadStep("thread_stop_scheduler")
    /\ UNCHANGED number_of_retries

thread_on_disconnect_event == \E k \in DOMAIN conns : thread_on_disconnect(k)

thread_teardown ==
    \E k \in DOMAIN conns :
        \/ thread_unsubscribe(k)
        \/ thread_disconnect(k)
        \/ thread_loop_stop(k)
        \/ thread_stop_scheduler(k)

NextThreads ==
    \/ auth_user_begin
    \/ init_unsubscribe
    \/ init_disconnect
    \/ init_loop_stop
    \/ init_stop_scheduler
    \/ init_new_client
    \/ init_connect
    \/ init_start_scheduler
    \/ init_loop_start
    \/ on_connect
    \/ thread_on_disconnect_event
    \/ thread_teardown

SpecThreads == Init /\ [][NextThreads]_vars

\* ===================================================================== claims
Resolved(i) ==
    replace_wildcards(subscribe_topics[i], current_installation.unique)

Jobs == {"refresh_http", "refresh_live_data", "request_server_referentials"}

\* C1: an unexpected disconnect (rc # 0) adds one to the retry counter; while
\* the counter is at most 5 afterwards the event is informational (no broker
\* call, connection, network loop, scheduler task and stop flag untouched); from
\* the 6th on it unsubscribes every topic, closes the connection and stops the
\* scheduler, leaving stop_scheduler_loop true. A disconnect with rc = 0
\* changes neither the counter nor anything else.
C1_DisconnectStep ==
    /\ last' = "on_disconnect" =>
          /\ number_of_retries' = number_of_retries + 1
          /\ IF number_of_retries' <= 5
             THEN /\ oplog' = NoCalls
                  /\ conns'[client].open = conns[client].open
                  /\ conns'[client].loop = conns[client].loop
                  /\ UNCHANGED <<client, stop_scheduler_loop, scheduler_task>>
             ELSE /\ \A t \in 1..Len(subscribe_topics) :
                        \E i \in DOMAIN oplog' :
                            oplog'[i] = Call("unsubscribe", Resolved(t), NoneStr)
                  /\ \E i \in DOMAIN oplog' : IsCall(oplog'[i], "disconnect")
                  /\ \E i \in DOMAIN oplog' : IsCall(oplog'[i], "stop_scheduler")
                  /\ ~conns'[client].open
                  /\ scheduler_task' = "none"
                  /\ stop_scheduler_loop'
    /\ last' = "on_disconnect_0" =>
          /\ oplog' = NoCalls
          /\ UNCHANGED <<number_of_retries, conns, client, stop_scheduler_loop,
                         scheduler_task>>

\* C1: every on_disconnect step counts and tears down as C1_DisconnectStep
\* says: informational up to the fifth unexpected disconnect, teardown from the
\* sixth, nothing for rc = 0.
C1_DisconnectCeiling == [][C1_DisconnectStep]_vars

\* the sixth unexpected disconnect has torn the session down
C1_Witness ==
    /\ last = "on_disconnect"
    /\ number_of_retries = 6
    /\ stop_scheduler_loop
    /\ ~conns[client].open

\* C2 (as claimed): a refresh() that raised CommunicationError leaves no error
\* to the caller of refresh_token.
C2_RefreshFailureAbsorbed ==
    \A i \in DOMAIN oplog :
        (IsSvc(oplog[i], "refresh") /\ oplog[i].outcome.kind = "CommunicationError")
            => raised = "none"

\* C3: a refresh() that raised AuthenticationError is followed by auth(); when
\* auth() returns, token data and user are its result and a new connection is
\* opened with the new access token; when auth() fails too, the stored token data
\* and user are as they were before the refresh.
C3_FallbackStep ==
    \A i \in DOMAIN oplog' :
        (IsSvc(oplog'[i], "refresh")
            /\ oplog'[i].outcome.kind = "AuthenticationError") =>
            /\ i + 1 \in DOMAIN oplog'
            /\ IsSvc(oplog'[i + 1], "auth")
            /\ LET a == oplog'[i + 1].outcome
               IN  IF a.kind = "ok"
                   THEN /\ token_data' = Some(a.td)
                        /\ user' = Some(a.user)
                        /\ client' \notin {0, client}
                        /\ conns'[client'].open
                        /\ conns'[client'].password = a.td.access_token
                        /\ \E j \in DOMAIN oplog' :
                              j > i + 1 /\ IsCall(oplog'[j], "connect")
                   ELSE /\ UNCHANGED <<token_data, user, client>>
                        /\ raised' = a.kind

\* C3: every step in which refresh() raised AuthenticationError runs auth()
\* next and stores its result, as C3_FallbackStep says.
C3_RefreshFallsBackToAuth == [][C3_FallbackStep]_vars

\* the fallback has run and replaced token data and user
C3_Witness ==
    \E i \in DOMAIN oplog :
        /\ IsSvc(oplog[i], "refresh")
        /\ oplog[i].outcome.kind = "AuthenticationError"
        /\ i + 1 \in DOMAIN oplog
        /\ IsSvc(oplog[i + 1], "auth")
        /\ oplog[i + 1].outcome.kind = "ok"
        /\ token_data = Some(oplog[i + 1].outcome.td)
        /\ Len(conns) = 2
        /\ conns[1].password # conns[2].password

\* C4: a refresh() that returned stores its token data whole and opens a new
\* connection whose password is the new access token, without a call of auth()
\* and with user, installations and current installation unchanged; and in
\* every state an open connection carries the stored access token as password.
C4_PasswordIsToken ==
    (client # 0 /\ conns[client].open) =>
        /\ ~IsNone(token_data)
        /\ conns[client].password = Val(token_data).access_token

C4_RefreshStep ==
    \A i \in DOMAIN oplog' :
        (IsSvc(oplog'[i], "refresh") /\ oplog'[i].outcome.kind = "ok") =>
            /\ token_data' = Some(oplog'[i].outcome.td)
            /\ \A j \in DOMAIN oplog' : ~IsSvc(oplog'[j], "auth")
            /\ UNCHANGED <<user, installations, current_installation>>
            /\ client' \notin {0, client}
            /\ conns'[client'].open
            /\ conns'[client'].password = oplog'[i].outcome.td.access_token

\* C4: every successful refresh stores the new token data and reopens with
\* it (C4_RefreshStep), and an open connection always carries the stored access
\* token (C4_PasswordIsToken).
C4_RefreshReconnects == []C4_PasswordIsToken /\ [][C4_RefreshStep]_vars

\* a refresh has replaced a connection opened with another token
C4_Witness ==
    /\ \E i \in DOMAIN oplog :
          IsSvc(oplog[i], "refresh") /\ oplog[i].outcome.kind = "ok"
    /\ Len(conns) = 2
    /\ conns[2].open
    /\ conns[1].password \notin {NoneStr, conns[2].password}

\* C5: at most one connection is open, and it is self.client; an open() on a
\* session that has a client leaves that client closed, its loop stopped and
\* without subscription, and has called disconnect and loop_stop before connect.
OpenConns == {i \in DOMAIN conns : conns[i].open}

C5_OneOpen == Cardinality(OpenConns) <= 1 /\ OpenConns \subseteq {client}

C5_ReopenStep ==
    (client # 0 /\ client' # client) =>
        /\ ~conns'[client].open
        /\ ~conns'[client].loop
        /\ conns'[client].subs = {}
        /\ \A j \in DOMAIN oplog' :
              IsCall(oplog'[j], "connect") =>
                  /\ \E i \in 1..(j - 1) : IsCall(oplog'[i], "disconnect")
                  /\ \E i \in 1..(j - 1) : IsCall(oplog'[i], "loop_stop")

\* C5: at most one connection is open in every state (C5_OneOpen), and every
\* re-open tears the previous client down before it connects (C5_ReopenStep).
C5_OneConnection == []C5_OneOpen /\ [][C5_ReopenStep]_vars

\* a second connection is open after the first was torn down by the re-open
C5_Witness ==
    /\ Len(conns) = 2
    /\ client = 2
    /\ conns[2].open
    /\ ~conns[1].open
    /\ \E i, j \in DOMAIN oplog :
          i < j /\ IsCall(oplog[i], "disconnect") /\ IsCall(oplog[j], "connect")

\* C6: a disconnect() that returns has called, in this order, unsubscribe for
\* each configured topic, disconnect, loop_stop and stop_scheduler, and leaves
\* no subscription, no open connection, no running network loop, no scheduler
\* task and the stop flag set.
C6_OrderedTeardown ==
    (last = "disconnect" /\ raised = "none") =>
        LET n == Len(subscribe_topics)
        IN  /\ Len(oplog) = n + 3
            /\ \A i \in 1..n : oplog[i] = Call("unsubscribe", Resolved(i), NoneStr)
            /\ IsCall(oplog[n + 1], "disconnect")
            /\ IsCall(oplog[n + 2], "loop_stop")
            /\ IsCall(oplog[n + 3], "stop_scheduler")
            /\ \A c \in DOMAIN conns :
                  ~conns[c].open /\ ~conns[c].loop /\ conns[c].subs = {}
            /\ scheduler_task = "none"
            /\ stop_scheduler_loop

\* disconnect() has returned on a session whose scheduler had been started
C6_Witness ==
    /\ last = "disconnect"
    /\ raised = "none"
    /\ authenticated
    /\ crons > 0

\* C7 (as claimed): while the scheduler is stopped (flag set, task cleared) no
\* periodic job runs, and a stop_scheduler() after a stop_scheduler() changes
\* nothing.
C7_StoppedStep ==
    /\ (stop_scheduler_loop /\ scheduler_task = "none") => last' \notin Jobs
    /\ (last = "stop_scheduler" /\ last' = "stop_scheduler") => UNCHANGED vars

\* C7 (as claimed): every step satisfies C7_StoppedStep: no periodic job runs
\* while the scheduler is stopped, and a repeated stop changes nothing.
C7_NoJobAfterStop == [][C7_StoppedStep]_vars

\* -------------------------------------------------------- claims on the store
\* the installation a payload names, when the list holds one
Matches(install_id) ==
    IF IsNone(installations) THEN {}
    ELSE {i \in DOMAIN Val(installations) :
             Val(installations)[i].unique = install_id}

KnownChannel(payload) ==
    /\ Matches(payload.install_id) # {}
    /\ \E p \in ChannelPaths(Val(installations)[Min(Matches(payload.install_id))]) :
          ChannelAt(Val(installations)[Min(Matches(payload.install_id))], p).id
              = payload.channel_id

Invoked == [o \in Observers |-> IF o \in callbacks THEN 1 ELSE 0]

\* exactly the channel payload names has the two new values, all else is as before
OnlyChannelChanged(payload) ==
    LET i == Min(Matches(payload.install_id))
        old == Val(installations)
        new == Val(installations')
        hit == {p \in ChannelPaths(old[i]) :
                   ChannelAt(old[i], p).id = payload.channel_id}
    IN  /\ Len(new) = Len(old)
        /\ \A j \in DOMAIN old : j # i => new[j] = old[j]
        /\ [new[i] EXCEPT !.groups = old[i].groups] = old[i]
        /\ ChannelPaths(new[i]) = ChannelPaths(old[i])
        /\ \E p \in hit :
              /\ \A q \in hit : Before(p, q)
              /\ \A q \in ChannelPaths(old[i]) :
                    ChannelAt(new[i], q) =
                        IF q = p
                        THEN [ChannelAt(old[i], q) EXCEPT
                                 !.energy_level = payload.mode_used,
                                 !.target_temperature = payload.setpoint_used]
                        ELSE ChannelAt(old[i], q)

\* C8 (as claimed): update_channel with a known installation and channel
\* overwrites energy_level and target_temperature of that channel only and
\* invokes each registered observer once; with an unknown installation or
\* channel it raises MqttClientError, changes nothing and invokes no observer.
C8_UpdateChannelStep ==
    \A payload \in ChannelPayloads :
        update_channel(payload) =>
            IF KnownChannel(payload)
            THEN /\ raised' = "none"
                 /\ OnlyChannelChanged(payload)
                 /\ notified' = Invoked
            ELSE /\ raised' = "MqttClientError"
                 /\ UNCHANGED installations
                 /\ notified' = NotNotified

\* C8 (as claimed): every update_channel step satisfies C8_UpdateChannelStep:
\* exactly one channel updated and one notification per observer, or
\* MqttClientError with nothing changed.
C8_UpdateChannel == [][C8_UpdateChannelStep]_vars

\* C9 (as claimed): update_live_data with an install_id that matches no entry
\* of the installations raises MqttClientError, changes no installation and
\* invokes no observer, in every state of the store.
C9_UnknownInstallationStep ==
    \A payload \in LivePayloads :
        (update_live_data(payload) /\ Matches(payload.install_id) = {}) =>
            /\ raised' = "MqttClientError"
            /\ UNCHANGED installations
            /\ notified' = NotNotified

\* C9 (as claimed): every update_live_data step with an unknown install_id
\* raises MqttClientError and changes nothing (C9_UnknownInstallationStep).
C9_UnknownInstallation == [][C9_UnknownInstallationStep]_vars

LiveOf(inst) ==
    Telemetry(inst.pumpOn, inst.mixed_circuit1_setpoint,
              inst.mixed_circuit1_supply, inst.mixed_circuit1_return,
              inst.mixed_circuit1_opening)

\* C10 (as claimed): a set_user on a store that has installations leaves every
\* installation that is still listed with the five live-telemetry values it
\* had before.
C10_CarryForwardStep ==
    (last' = "set_user" /\ ~IsNone(installations)) =>
        \A i \in DOMAIN Val(installations), j \in DOMAIN Val(installations') :
            Val(installations)[i].unique = Val(installations')[j].unique =>
                LiveOf(Val(installations')[j]) = LiveOf(Val(installations)[i])

\* C10 (as claimed): every set_user step keeps each installation's five
\* live-telemetry values (C10_CarryForwardStep).
C10_TelemetryCarriedForward == [][C10_CarryForwardStep]_vars

\* ----------------------------------------------- claims on the topic resolver
Placeholders == IdForms \cup EmailForms

\* C11 (as claimed): replace_wildcards of a template that holds a placeholder
\* in any letter case returns, the result holds no placeholder, every {id} is
\* the current installation's unique (where one is set) and every {email} the
\* login identifier, every other token is as in the template, and the session
\* state is as before.
C11_ResolveStep ==
    (last' = "replace_wildcards"
        /\ \E k \in DOMAIN oplog'[1].arg : oplog'[1].arg[k] \in Placeholders) =>
        LET topic == oplog'[1].arg
            unique == current_installation.unique
        IN  /\ raised' = "none"
            /\ Len(oplog') = 2
            /\ IsReturned(oplog'[2])
            /\ Len(oplog'[2].returned) = Len(topic)
            /\ \A k \in DOMAIN topic :
                  /\ oplog'[2].returned[k] \notin Placeholders
                  /\ (topic[k] \in IdForms /\ unique # NoneStr)
                        => oplog'[2].returned[k] = unique
                  /\ topic[k] \in EmailForms
                        => oplog'[2].returned[k] = auth_username
                  /\ topic[k] \notin Placeholders
                        => oplog'[2].returned[k] = topic[k]
            /\ UNCHANGED <<store_vars, session_vars>>

\* C11 (as claimed): every call of the topic resolver satisfies C11_ResolveStep.
C11_TopicResolution == [][C11_ResolveStep]_vars

\* ------------------------------------------------ claims on the session, two
TopicCalls == {"subscribe", "unsubscribe", "publish"}

\* C12 (as claimed): a handler that resolved a topic (for a subscribe, an
\* unsubscribe or a publish) ran on a session whose user and current
\* installation unique are set. Neither is ever cleared again, so they are set
\* when the handler has ended if they were set when it resolved the topic.
C12_TopicsAfterSetup ==
    (\E i \in DOMAIN oplog :
        "call" \in DOMAIN oplog[i] /\ oplog[i].call \in TopicCalls) =>
        /\ ~IsNone(user)
        /\ current_installation.unique # NoneStr

\* ------------------------------------------------- claims on the store, two
\* the installs of a user whose unique is the user's defaultInstall
DefaultInstalls(u) ==
    IF "installs" \in DOMAIN u
    THEN {i \in DOMAIN u.installs : u.installs[i].unique = u.defaultInstall}
    ELSE {}

\* C13 (as claimed): after set_user(u) with a user that lists its default
\* install, the current installation has the id, unique and hash of that
\* install (hash None when the install has none).
C13_RecomputeStep ==
    (last' = "set_user" /\ DefaultInstalls(Val(user')) # {}) =>
        LET inst == Val(user').installs[Min(DefaultInstalls(Val(user')))]
        IN  /\ current_installation'.id = inst._id
            /\ current_installation'.unique = inst.unique
            /\ current_installation'.hash =
                  IF "hash" \in DOMAIN inst THEN inst.hash ELSE NoneStr

\* C13 (as claimed): every set_user step satisfies C13_RecomputeStep.
C13_CurrentInstallationRecomputed == [][C13_RecomputeStep]_vars

\* C14: registering an observer leaves it in the set once, whether or not it
\* was there (a repeated registration changes nothing); removing leaves it
\* out, raises nothing, and changes nothing when it was not registered; no
\* other observer is affected; and a handler that publishes invokes each
\* registered observer once and no other observer.
C14_SetStep ==
    /\ last' = "register_callback" =>
          LET o == oplog'[1].observer
          IN  /\ raised' = "none"
              /\ o \in callbacks'
              /\ callbacks' \ {o} = callbacks \ {o}
              /\ o \in callbacks => callbacks' = callbacks
    /\ last' = "remove_callback" =>
          LET o == oplog'[1].observer
          IN  /\ raised' = "none"
              /\ o \notin callbacks'
              /\ callbacks' \ {o} = callbacks \ {o}
              /\ o \notin callbacks => callbacks' = callbacks
    /\ (last' \in {"update_live_data", "update_channel"} /\ raised' = "none") =>
          \A o \in Observers : notified'[o] = IF o \in callbacks THEN 1 ELSE 0
    /\ \A o \in Observers :
          /\ notified'[o] <= 1
          /\ o \notin callbacks' => notified'[o] = 0

\* C14: every step of the store satisfies C14_SetStep.
C14_ObserverSet == [][C14_SetStep]_vars

\* an observer that was registered has been registered again and is in the
\* set once
C14_Witness ==
    /\ last = "register_callback"
    /\ oplog[1].present
    /\ callbacks = {oplog[1].observer}

\* ---------------------------------------------- claims on the session, three
ErrorLogged(log) == \E j \in DOMAIN log : IsCall(log[j], "_LOGGER.error")

\* C15: a handler publishes at most once; a publish that fails adds one to
\* the consecutive-failure counter, a publish that succeeds sets it to 0, and
\* no other step changes it; the failure is logged as an error exactly when the
\* counter is above 5 after the increment; and a publishing handler raises
\* nothing, keeps the client, its connection and network loop as open or
\* closed as they were, and leaves the scheduler and the retry counter alone.
C15_PublishStep ==
    /\ (\A i \in DOMAIN oplog' : ~IsCall(oplog'[i], "publish"))
          => UNCHANGED number_of_message_failures
    /\ \A i \in DOMAIN oplog' :
          IsCall(oplog'[i], "publish") =>
              /\ \A j \in DOMAIN oplog' : IsCall(oplog'[j], "publish") => j = i
              /\ i + 1 \in DOMAIN oplog'
              /\ IsReturned(oplog'[i + 1])
              /\ IF oplog'[i + 1].returned = "MQTT_ERR_SUCCESS"
                 THEN /\ number_of_message_failures' = 0
                      /\ ~ErrorLogged(oplog')
                 ELSE /\ number_of_message_failures' =
                            number_of_message_failures + 1
                      /\ ErrorLogged(oplog') <=> number_of_message_failures' > 5
              /\ raised' = "none"
              /\ client' = client
              /\ conns'[client].open = conns[client].open
              /\ conns'[client].loop = conns[client].loop
              /\ UNCHANGED <<stop_scheduler_loop, scheduler_task,
                             number_of_retries>>

C16_OnConnect ==
    last = "on_connect" =>
        LET n == Len(subscribe_topics)
        IN  /\ authenticated
            /\ Len(oplog) >= 2 * n + 1
            /\ \A t \in 1..n :
                  /\ oplog[2 * t - 1] = Call("unsubscribe", Resolved(t), NoneStr)
                  /\ oplog[2 * t] = Call("subscribe", Resolved(t), NoneStr)
            /\ ~IsNone(token_data)
            /\ oplog[2 * n + 1] =
                  Call("publish",
                       replace_wildcards(USER_REFERENTIAL,
                                         current_installation.unique),
                       Val(token_data).access_token)
            /\ \A j \in DOMAIN oplog :
                  IsCall(oplog[j], "publish") => j = 2 * n + 1
            /\ conns[client].subs = {Resolved(t) : t \in 1..n}

\* on_connect has run on the second connection of the session
C16_Witness ==
    /\ last = "on_connect"
    /\ client = 2
    /\ authenticated
    /\ Cardinality(conns[client].subs) = Len(subscribe_topics)

\* ------------------------------------------------------ claim, end to end
\* C17, first half: when authenticate has returned a user with one install
\* that has one group, the store holds exactly one installation and the
\* session is ready.
C17_Ready ==
    (last = "auth_user" /\ raised = "none") =>
        /\ is_ready
        /\ Len(Val(installations)) = 1
        /\ Val(installations)[1].unique = UserOneGroup.installs[1].unique

\* C17, second half: a live-data message for that installation with pumpOn
\* true returns, sets the installation's pumpOn and invokes every registered
\* observer once.
C17_LiveStep ==
    \A payload \in LivePayloads :
        (/\ is_ready
         /\ update_live_data(payload)
         /\ payload.install_id = UserOneGroup.installs[1].unique
         /\ payload.data.pumpOn = 1) =>
            /\ raised' = "none"
            /\ Len(Val(installations')) = 1
            /\ Val(installations')[1].pumpOn = 1
            /\ notified' = Invoked

\* C17: C17_Ready in every state and C17_LiveStep in every step.
C17_EndToEnd == []C17_Ready /\ [][C17_LiveStep]_vars

\* after the login the message has switched the pump on and both registered
\* observers were invoked
C17_Witness ==
    /\ last = "update_live_data"
    /\ raised = "none"
    /\ ~IsNone(token_data)
    /\ client # 0
    /\ Val(installations)[1].pumpOn = 1
    /\ callbacks = Observers
    /\ notified = [o \in Observers |-> 1]

\* ------------------------------------------------ claims on the store, three
\* the raw installs set_installations rebuilds from: the first is listed and
\* has at least one group
Rebuilds(u) ==
    /\ "installs" \in DOMAIN u
    /\ Len(u.installs) >= 1
    /\ "groups" \in DOMAIN u.installs[1]
    /\ Len(u.installs[1].groups) >= 1

\* C18: set_user(u) stores u as the user; when the first install of u has at
\* least one group the installations become one entry per install of u, in
\* order, each with the id, unique and groups of its install, and every
\* registered observer is invoked once; otherwise the installations are as
\* before and no observer is invoked.
C18_SetUserStep ==
    last' = "set_user" =>
        LET u == oplog'[1].input
        IN  /\ user' = Some(u)
            /\ IF Rebuilds(u)
               THEN /\ ~IsNone(installations')
                    /\ Len(Val(installations')) = Len(u.installs)
                    /\ \A i \in DOMAIN u.installs :
                          /\ Val(installations')[i].id = u.installs[i]._id
                          /\ Val(installations')[i].unique = u.installs[i].unique
                          /\ Val(installations')[i].groups = u.installs[i].groups
                    /\ notified' = Invoked
               ELSE /\ UNCHANGED installations
                    /\ notified' = NotNotified

\* C18: every set_user step satisfies C18_SetUserStep.
C18_RebuildGuard == [][C18_SetUserStep]_vars

\* a user whose first install has an empty list of groups was stored and the
\* installations built before, with an edited channel, are still there
C18_Witness ==
    /\ last = "set_user"
    /\ user = Some(UserEmptyGroups)
    /\ ~IsNone(installations)
    /\ Len(Val(installations)) = 2
    /\ ChannelAt(Val(installations)[1], <<1, 1, 1>>).energy_level = 2
    /\ callbacks # {}

\* ----------------------------------------------- claims on the session, four
\* C19: in a poll that reached the directory call, refresh() is called if and
\* only if that call raised AuthenticationError; when it raised
\* CommunicationError or returned no user the poll returns without error,
\* token data, user, installations, current installation, the client and its
\* connections are as before and no observer is invoked; when it returned a
\* user, that user is stored, the installations are rebuilt where its first
\* install has a group, and the poll returns without error.
C19_PollStep ==
    \A i \in DOMAIN oplog' :
        IsSvc(oplog'[i], "read_user_state") =>
            LET r == oplog'[i].outcome
            IN  /\ (\E j \in DOMAIN oplog' : IsSvc(oplog'[j], "refresh"))
                      <=> r.kind = "AuthenticationError"
                /\ r.kind \in {"CommunicationError", "none"} =>
                      /\ raised' = "none"
                      /\ UNCHANGED <<token_data, user, installations,
                                     current_installation, client, conns>>
                      /\ notified' = NotNotified
                /\ r.kind = "ok" =>
                      /\ raised' = "none"
                      /\ user' = Some(r.user)
                      /\ UNCHANGED <<token_data, client>>
                      /\ IF Rebuilds(r.user)
                         THEN /\ Len(Val(installations')) = Len(r.user.installs)
                              /\ notified' = Invoked
                         ELSE /\ UNCHANGED installations
                              /\ notified' = NotNotified

\* C19: every step of the session satisfies C19_PollStep.
C19_PollErrors == [][C19_PollStep]_vars

\* a poll whose directory call raised CommunicationError has returned on a
\* session with a live connection
C19_Witness ==
    /\ last = "refresh_http"
    /\ raised = "none"
    /\ \E i \in DOMAIN oplog :
          /\ IsSvc(oplog[i], "read_user_state")
          /\ oplog[i].outcome.kind = "CommunicationError"
    /\ conns[client].open
    /\ conns[client].link

\* C20: a poll tick leaves the retry counter at 0 however it ends; an
\* unexpected disconnect adds one to it and tears the session down exactly when
\* the counter is then above 5, without resetting it; and no other step changes
\* the counter. The counter is therefore the number of unexpected disconnects
\* since the last poll tick, and a teardown by on_disconnect needs more than 5
\* of them without a tick in between.
C20_RetryStep ==
    /\ last' = "refresh_http" => number_of_retries' = 0
    /\ last' = "on_disconnect" =>
          /\ number_of_retries' = number_of_retries + 1
          /\ (\E i \in DOMAIN oplog' : IsCall(oplog'[i], "disconnect"))
                <=> number_of_retries' > 5
          /\ number_of_retries' <= 5 =>
                /\ conns'[client].open = conns[client].open
                /\ UNCHANGED <<stop_scheduler_loop, scheduler_task>>
    /\ last' \notin {"refresh_http", "on_disconnect"} =>
          UNCHANGED number_of_retries

\* C20: every step of the session satisfies C20_RetryStep.
C20_PollResetsRetries == [][C20_RetryStep]_vars

\* a poll tick has run after the session was torn down and the counter is 0
C20_Witness ==
    /\ last = "refresh_http"
    /\ number_of_retries = 0
    /\ authenticated
    /\ stop_scheduler_loop
    /\ scheduler_task = "none"
    /\ ~conns[client].open

\* ----------------------------------------------- claims on the session, five
\* the handlers that open a connection
Reopened == \E i \in DOMAIN oplog : IsCall(oplog[i], "connect")

\* C21 (as claimed): at most one set of the three periodic jobs is registered,
\* and when a handler has opened a connection the scheduler runs: the stop
\* flag is false and the scheduler task is set.
C21_OneSchedulerRunning ==
    /\ crons <= 1
    /\ Reopened => (~stop_scheduler_loop /\ scheduler_task # "none")

\* --------------------------------- claim on session context and network thread
\* C22: in every interleaving of an on_disconnect teardown on a network thread
\* with init_mqtt_client on the session context, a connection is closed only
\* by the session context or by its own network thread, and a scheduler task
\* is cancelled only by the session context or by the network thread of the
\* connection it was started for.
C22_TeardownOwnConnection ==
    \A j \in DOMAIN conns :
        /\ conns[j].closed_by \subseteq {0, j}
        /\ conns[j].cancelled_by \subseteq {0, j}

\* the network thread of the first connection began its teardown, the session
\* context re-opened meanwhile, and the second connection is open with its
\* network loop and scheduler task
C22_Witness ==
    /\ Len(conns) = 2
    /\ conns[1].closed_by = {0, 1}
    /\ conns[2].open
    /\ conns[2].loop
    /\ conns[2].task = "pending"
    /\ pc = "idle"

====
